---- MODULE Spec2Model ----
(***************************************************************************)
(* Model of openfpga/src/base/openfpga_link_arch.cpp: the linking of the   *)
(* OpenFPGA pb_type annotations to the VPR pb_type graph.                  *)
(*                                                                         *)
(* The pb_type graph is a pointer structure; pointers are modelled as      *)
(* positive indices into per-graph tables (pb, mode, port) and nullptr as  *)
(* Null.  VprPbTypeAnnotation holds std::map members; each is modelled as  *)
(* a function whose DOMAIN is the set of keys present in the map.          *)
(***************************************************************************)
EXTENDS Integers, Sequences, FiniteSets, TLC

VARIABLES
  g,                        \* which pb_type graph the device context holds
  annotations,              \* openfpga_arch.pb_type_annotations
  pc,                       \* position of link_arch
  idx,                      \* index of the loop of the current phase
  physical_pb_modes,        \* VprPbTypeAnnotation: pb_type -> physical mode
  physical_pb_types,        \* VprPbTypeAnnotation: operating pb_type -> physical pb_type
  physical_pb_ports,        \* VprPbTypeAnnotation: operating port -> physical port
  physical_pb_port_ranges,  \* VprPbTypeAnnotation: operating port -> BasicPort
  num_err,                  \* error counter of check_vpr_physical_pb_mode_annotation
  log,                      \* VTR_LOG / VTR_LOG_ERROR messages, in order
  pair_calls,               \* history of pair_operating_and_physical_pb_types calls
  query,                    \* arguments of a try_find_pb_type_with_given_path call
  found,                    \* results of the calls made with query
  snap                      \* the annotation as it was after a first implicit run

vars == <<g, annotations, pc, idx, physical_pb_modes, physical_pb_types,
          physical_pb_ports, physical_pb_port_ranges, num_err, log,
          pair_calls, query, found, snap>>

index == <<physical_pb_modes, physical_pb_types, physical_pb_ports,
           physical_pb_port_ranges>>

-----------------------------------------------------------------------------
(* Bounds of the model *)

MaxRecords == 3      \* longest list of pb_type annotations
MaxPathLen == 3      \* longest list of pb_type names in a queried path

-----------------------------------------------------------------------------
(* The data structures *)

Null == 0

PbType(name, modes, ports) == [name |-> name, modes |-> modes, ports |-> ports]
Mode(name, children) == [name |-> name, children |-> children]
Port(name, num_pins) == [name |-> name, num_pins |-> num_pins]

\* BasicPort(name, width): a port [0 : width-1]
BasicPort(name, width) == [name |-> name, lsb |-> 0, msb |-> width - 1]
\* BasicPort(): no name, an invalid range
BasicPortDefault == [name |-> "", lsb |-> 1, msb |-> 0]
\* BasicPort::set_name
set_name(port, name) == [port EXCEPT !.name = name]
\* BasicPort::set_width
set_width(port, width) == [port EXCEPT !.lsb = 0, !.msb = width - 1]
\* BasicPort::contained: this port's range lies within portA's range
contained(this, portA) == portA.lsb <= this.lsb /\ this.msb <= portA.msb

EmptyMap == [x \in {} |-> Null]
NoPortMap == [x \in {} |-> BasicPortDefault]

\* A pb_type annotation that only describes a physical pb_type
PhysicalAnnotation(parents, parent_modes, name, mode_name) ==
  [operating_parent_pb_type_names |-> <<>>,
   operating_parent_mode_names |-> <<>>,
   operating_pb_type_name |-> "",
   physical_parent_pb_type_names |-> parents,
   physical_parent_mode_names |-> parent_modes,
   physical_pb_type_name |-> name,
   physical_mode_name |-> mode_name,
   port_map |-> NoPortMap]

\* A pb_type annotation that binds an operating pb_type to a physical pb_type
OperatingAnnotation(op_parents, op_modes, op_name, parents, parent_modes, name, mode_name, port_map) ==
  [operating_parent_pb_type_names |-> op_parents,
   operating_parent_mode_names |-> op_modes,
   operating_pb_type_name |-> op_name,
   physical_parent_pb_type_names |-> parents,
   physical_parent_mode_names |-> parent_modes,
   physical_pb_type_name |-> name,
   physical_mode_name |-> mode_name,
   port_map |-> port_map]

\* PbTypeAnnotation::is_operating_pb_type
is_operating_pb_type(a) ==
  a.operating_pb_type_name # "" /\ a.physical_pb_type_name # ""
\* PbTypeAnnotation::is_physical_pb_type
is_physical_pb_type(a) ==
  a.operating_pb_type_name = "" /\ a.physical_pb_type_name # ""
\* PbTypeAnnotation::physical_pb_type_port
physical_pb_type_port(a, port_name) ==
  IF port_name \in DOMAIN a.port_map THEN a.port_map[port_name]
  ELSE BasicPortDefault

-----------------------------------------------------------------------------
(* The pb_type graphs and, for each, the annotations a list is drawn from *)

\* A with two modes, each holding one primitive; the first
\* logical block type has no pb_type
Graph1 ==
  [lb   |-> <<Null, 1>>,
   pb   |-> << PbType("A", <<1, 2>>, <<>>),
               PbType("B", <<>>, <<>>),
               PbType("C", <<>>, <<>>) >>,
   mode |-> << Mode("m1", <<2>>), Mode("m2", <<3>>) >>,
   port |-> << >>,
   pool |-> { PhysicalAnnotation(<<>>, <<>>, "A", "m1"),
              PhysicalAnnotation(<<>>, <<>>, "A", "m2"),
              PhysicalAnnotation(<<>>, <<>>, "A", "zz"),
              PhysicalAnnotation(<<>>, <<>>, "A", ""),
              PhysicalAnnotation(<<>>, <<>>, "Q", "m1") }]

\* A with the single mode "only" holding D (single mode "solo") and F (modes
\* x and y); G under F.x and I under F.y have a single mode "solo" each; the
\* primitives are all named L
Graph2 ==
  [lb   |-> <<1>>,
   pb   |-> << PbType("A", <<1>>, <<>>),
               PbType("D", <<2>>, <<>>),
               PbType("L", <<>>, <<>>),
               PbType("F", <<3, 4>>, <<>>),
               PbType("G", <<5>>, <<>>),
               PbType("L", <<>>, <<>>),
               PbType("I", <<6>>, <<>>),
               PbType("L", <<>>, <<>>) >>,
   mode |-> << Mode("only", <<2, 4>>), Mode("solo", <<3>>),
               Mode("x", <<5>>), Mode("y", <<7>>),
               Mode("solo", <<6>>), Mode("solo", <<8>>) >>,
   port |-> << >>,
   pool |-> { PhysicalAnnotation(<<"A">>, <<"only">>, "F", "x"),
              PhysicalAnnotation(<<"A">>, <<"only">>, "F", "y"),
              PhysicalAnnotation(<<"A", "F">>, <<"only", "x">>, "G", "solo"),
              PhysicalAnnotation(<<>>, <<>>, "A", "only"),
              PhysicalAnnotation(<<"A">>, <<"only">>, "F", "zz"),
              PhysicalAnnotation(<<"A">>, <<"only">>, "Z", "x") }]

\* clb with a physical mode holding PH and an operating mode holding OP and
\* OP2, all primitives with ports
Graph3 ==
  [lb   |-> <<1>>,
   pb   |-> << PbType("clb", <<1, 2>>, <<>>),
               PbType("PH", <<>>, <<1, 2>>),
               PbType("OP", <<>>, <<3, 4>>),
               PbType("OP2", <<>>, <<5, 6>>) >>,
   mode |-> << Mode("phys", <<2>>), Mode("op", <<3, 4>>) >>,
   port |-> << Port("in", 8), Port("out", 2),
               Port("in", 4), Port("out", 2),
               Port("in", 4), Port("q", 1) >>,
   pool |-> { PhysicalAnnotation(<<>>, <<>>, "clb", "phys"),
              OperatingAnnotation(<<"clb">>, <<"op">>, "OP",
                                  <<"clb">>, <<"phys">>, "PH", "", NoPortMap),
              OperatingAnnotation(<<"clb">>, <<"op">>, "OP",
                                  <<"clb">>, <<"phys">>, "PH", "",
                                  [x \in {"in"} |-> [name |-> "in", lsb |-> 2, msb |-> 5]]),
              OperatingAnnotation(<<"clb">>, <<"op">>, "OP",
                                  <<"clb">>, <<"phys">>, "PH", "",
                                  [x \in {"out"} |-> [name |-> "out", lsb |-> 0, msb |-> 2]]),
              OperatingAnnotation(<<"clb">>, <<"op">>, "OP2",
                                  <<"clb">>, <<"phys">>, "PH", "", NoPortMap),
              OperatingAnnotation(<<"clb">>, <<"op">>, "OP2",
                                  <<"clb">>, <<"phys">>, "PH", "",
                                  [x \in {"q"} |-> [name |-> "out", lsb |-> 1, msb |-> 1]]),
              OperatingAnnotation(<<"clb">>, <<"op">>, "OP",
                                  <<"clb">>, <<"phys">>, "ZZ", "", NoPortMap) }]

\* Two logical block types of the same name "io"; P under the first has a
\* narrower port than P under the second
Graph4 ==
  [lb   |-> <<1, 3>>,
   pb   |-> << PbType("io", <<1>>, <<>>),
               PbType("P", <<>>, <<1>>),
               PbType("io", <<2, 3>>, <<>>),
               PbType("P", <<>>, <<2>>),
               PbType("R", <<>>, <<3>>) >>,
   mode |-> << Mode("m", <<2>>), Mode("m", <<4>>), Mode("n", <<5>>) >>,
   port |-> << Port("a", 1), Port("a", 2), Port("a", 2) >>,
   pool |-> { PhysicalAnnotation(<<>>, <<>>, "io", "m"),
              PhysicalAnnotation(<<"io">>, <<"n">>, "R", "m"),
              OperatingAnnotation(<<"io">>, <<"m">>, "P",
                                  <<"io">>, <<"n">>, "R", "", NoPortMap),
              OperatingAnnotation(<<"io">>, <<"m">>, "P",
                                  <<"io">>, <<"m">>, "P", "",
                                  [x \in {"a"} |-> [name |-> "a", lsb |-> 1, msb |-> 1]]),
              OperatingAnnotation(<<>>, <<>>, "io",
                                  <<>>, <<>>, "io", "m", NoPortMap) }]

Graphs == <<Graph1, Graph2, Graph3, Graph4>>

\* g_vpr_ctx.device()
G == Graphs[g]

PbTypes == 1..Len(G.pb)
Modes == 1..Len(G.mode)
Ports == 1..Len(G.port)

-----------------------------------------------------------------------------
(* pb_type_utils *)

\* The first element of seq among the positions hits, or Null
FirstOf(seq, hits) ==
  IF hits = {} THEN Null
  ELSE seq[CHOOSE i \in hits : \A j \in hits : i <= j]

is_primitive_pb_type(pb_type) == Len(G.pb[pb_type].modes) = 0

find_pb_type_mode(pb_type, mode_name) ==
  FirstOf(G.pb[pb_type].modes,
          {i \in 1..Len(G.pb[pb_type].modes) :
             G.mode[G.pb[pb_type].modes[i]].name = mode_name})

find_mode_child_pb_type(mode, child_name) ==
  FirstOf(G.mode[mode].children,
          {i \in 1..Len(G.mode[mode].children) :
             G.pb[G.mode[mode].children[i]].name = child_name})

pb_type_ports(pb_type) == G.pb[pb_type].ports

find_pb_type_port(pb_type, port_name) ==
  FirstOf(G.pb[pb_type].ports,
          {i \in 1..Len(G.pb[pb_type].ports) :
             G.port[G.pb[pb_type].ports[i]].name = port_name})

-----------------------------------------------------------------------------
(* VprPbTypeAnnotation *)

\* std::map: map[key] = value
MapPut(map, key, value) ==
  [k \in (DOMAIN map) \cup {key} |-> IF k = key THEN value ELSE map[k]]

\* VprPbTypeAnnotation::physical_mode: nullptr when pb_type has no entry
physical_mode(modes, pb_type) ==
  IF pb_type \in DOMAIN modes THEN modes[pb_type] ELSE Null

add_pb_type_physical_mode(modes, pb_type, mode) == MapPut(modes, pb_type, mode)
add_physical_pb_type(types, operating, physical) == MapPut(types, operating, physical)
add_physical_pb_port(ports, operating, physical) == MapPut(ports, operating, physical)
add_physical_pb_port_range(ranges, operating, range) == MapPut(ranges, operating, range)

-----------------------------------------------------------------------------
(* try_find_pb_type_with_given_path *)

\* The single-name path: the top pb_type or nothing
try_find_top(top_pb_type, target_pb_type_names) ==
  IF target_pb_type_names[1] = G.pb[top_pb_type].name THEN top_pb_type ELSE Null

\* (a variant that lets any name pass)
level_matches_any(cur_pb_type, target_pb_type_names, i) == TRUE

\* Whether pb_type at level i has the name the path gives it
level_matches(cur_pb_type, target_pb_type_names, i) ==
  target_pb_type_names[i] = G.pb[cur_pb_type].name

RECURSIVE try_find_from(_, _, _, _)

\* The end of an iteration: the child is the pb_type wanted, or the next level
try_find_next(child, target_pb_type_names, target_pb_mode_names, i) ==
  IF child = Null THEN Null
  ELSE IF i + 1 = Len(target_pb_type_names) THEN child
  ELSE try_find_from(child, target_pb_type_names, target_pb_mode_names, i + 1)

\* The middle of an iteration: from the mode found to its child
try_find_child(cur_mode, target_pb_type_names, target_pb_mode_names, i) ==
  IF cur_mode = Null THEN Null
  ELSE try_find_next(find_mode_child_pb_type(cur_mode, target_pb_type_names[i + 1]),
                     target_pb_type_names, target_pb_mode_names, i)

\* The loop, from iteration i (counted from 1) with cur_pb_type
try_find_from(cur_pb_type, target_pb_type_names, target_pb_mode_names, i) ==
  IF i > Len(target_pb_type_names) - 1 THEN Null
  ELSE IF ~level_matches(cur_pb_type, target_pb_type_names, i) THEN Null
  ELSE try_find_child(find_pb_type_mode(cur_pb_type, target_pb_mode_names[i]),
                      target_pb_type_names, target_pb_mode_names, i)

try_find_pb_type_with_given_path(top_pb_type, target_pb_type_names, target_pb_mode_names) ==
  IF Len(target_pb_type_names) = 1
  THEN try_find_top(top_pb_type, target_pb_type_names)
  ELSE try_find_from(top_pb_type, target_pb_type_names, target_pb_mode_names, 1)

-----------------------------------------------------------------------------
(* The state after construction: an empty annotation, link_arch not started *)

Msg(kind, at) == [kind |-> kind, at |-> at]

AnnotationLists(pool) == UNION {[1..n -> pool] : n \in 0..MaxRecords}

NoQuery == [top |-> Null, names |-> <<>>, modes |-> <<>>]

EmptyIndex ==
  /\ physical_pb_modes = EmptyMap
  /\ physical_pb_types = EmptyMap
  /\ physical_pb_ports = EmptyMap
  /\ physical_pb_port_ranges = NoPortMap

Init ==
  /\ g \in 1..Len(Graphs)
  /\ annotations \in AnnotationLists(Graphs[g].pool)
  /\ pc = "explicit"
  /\ idx = 1
  /\ EmptyIndex
  /\ num_err = 0
  /\ log = <<>>
  /\ pair_calls = <<>>
  /\ query = NoQuery
  /\ found = <<>>
  /\ snap = EmptyMap

-----------------------------------------------------------------------------
(* build_vpr_physical_pb_mode_explicit_annotation *)

\* The names of the pb_types on the path to the annotated pb_type
explicit_target_pb_type_names(a) ==
  IF is_physical_pb_type(a)
  THEN Append(a.physical_parent_pb_type_names, a.physical_pb_type_name)
  ELSE IF is_operating_pb_type(a)
  THEN Append(a.operating_parent_pb_type_names, a.operating_pb_type_name)
  ELSE <<>>

explicit_target_pb_mode_names(a) ==
  IF is_physical_pb_type(a) THEN a.physical_parent_mode_names
  ELSE IF is_operating_pb_type(a) THEN a.operating_parent_mode_names
  ELSE <<>>

\* The loop over the logical block types: the pb_type found under the first
\* logical block type that holds the path, or Null
explicit_find(names, modes) ==
  LET Found(top) == IF top = Null \/ names[1] # G.pb[top].name THEN Null
                    ELSE try_find_pb_type_with_given_path(top, names, modes)
      Holds(top) == Found(top) # Null
  IN Found(FirstOf(G.lb, {i \in 1..Len(G.lb) : Holds(G.lb[i])}))

explicit_target_pb_type(a) ==
  explicit_find(explicit_target_pb_type_names(a), explicit_target_pb_mode_names(a))

\* Where link_arch goes when the explicit function returns
after_explicit == "implicit"

\* An annotation without a physical mode name is skipped
ExplicitSkip ==
  /\ pc = "explicit"
  /\ idx <= Len(annotations)
  /\ annotations[idx].physical_mode_name = ""
  /\ idx' = idx + 1
  /\ UNCHANGED <<g, annotations, pc, index, num_err, log, pair_calls, query,
                 found, snap>>

\* The pb_type is found and has a mode of the given name
ExplicitAnnotate ==
  /\ pc = "explicit"
  /\ idx <= Len(annotations)
  /\ annotations[idx].physical_mode_name # ""
  /\ \E target_pb_type \in {explicit_target_pb_type(annotations[idx])} :
       /\ target_pb_type # Null
       /\ \E mode \in {find_pb_type_mode(target_pb_type,
                                         annotations[idx].physical_mode_name)} :
            /\ mode # Null
            /\ physical_pb_modes' =
                 add_pb_type_physical_mode(physical_pb_modes, target_pb_type, mode)
            /\ log' = Append(log, Msg("annotate", target_pb_type))
  /\ idx' = idx + 1
  /\ UNCHANGED <<g, annotations, pc, physical_pb_types, physical_pb_ports,
                 physical_pb_port_ranges, num_err, pair_calls, query, found, snap>>

\* The pb_type is found and has no mode of the given name: nullptr is stored
\* as its physical mode and then dereferenced for the message.  The read
\* through the null pointer either ends the process ...
ExplicitNullModeCrash ==
  /\ pc = "explicit"
  /\ idx <= Len(annotations)
  /\ annotations[idx].physical_mode_name # ""
  /\ \E target_pb_type \in {explicit_target_pb_type(annotations[idx])} :
       /\ target_pb_type # Null
       /\ find_pb_type_mode(target_pb_type,
                            annotations[idx].physical_mode_name) = Null
       /\ physical_pb_modes' =
            add_pb_type_physical_mode(physical_pb_modes, target_pb_type, Null)
  /\ pc' = "crashed"
  /\ UNCHANGED <<g, annotations, idx, physical_pb_types, physical_pb_ports,
                 physical_pb_port_ranges, num_err, log, pair_calls, query,
                 found, snap>>

\* ... or yields some string and the loop goes on
ExplicitNullModeContinue ==
  /\ pc = "explicit"
  /\ idx <= Len(annotations)
  /\ annotations[idx].physical_mode_name # ""
  /\ \E target_pb_type \in {explicit_target_pb_type(annotations[idx])} :
       /\ target_pb_type # Null
       /\ find_pb_type_mode(target_pb_type,
                            annotations[idx].physical_mode_name) = Null
       /\ physical_pb_modes' =
            add_pb_type_physical_mode(physical_pb_modes, target_pb_type, Null)
       /\ log' = Append(log, Msg("annotate", target_pb_type))
  /\ idx' = idx + 1
  /\ UNCHANGED <<g, annotations, pc, physical_pb_types, physical_pb_ports,
                 physical_pb_port_ranges, num_err, pair_calls, query, found, snap>>

\* No logical block type holds the path: the error is logged and the
\* function returns
ExplicitFail ==
  /\ pc = "explicit"
  /\ idx <= Len(annotations)
  /\ annotations[idx].physical_mode_name # ""
  /\ explicit_target_pb_type(annotations[idx]) = Null
  /\ log' = Append(log, Msg("unresolved", idx))
  /\ pc' = after_explicit
  /\ idx' = 1
  /\ UNCHANGED <<g, annotations, index, num_err, pair_calls, query, found, snap>>

\* The list is exhausted
ExplicitEnd ==
  /\ pc = "explicit"
  /\ idx > Len(annotations)
  /\ pc' = after_explicit
  /\ idx' = 1
  /\ UNCHANGED <<g, annotations, index, num_err, log, pair_calls, query, found,
                 snap>>

-----------------------------------------------------------------------------
(* rec_infer_vpr_physical_pb_mode_annotation: st holds the physical modes    *)
(* and the log                                                               *)

\* A pb_type with a single mode: that mode, unless a mode is annotated
infer_single_mode(cur_pb_type, st) ==
  IF physical_mode(st.modes, cur_pb_type) = Null
  THEN [modes |-> add_pb_type_physical_mode(st.modes, cur_pb_type,
                                            G.pb[cur_pb_type].modes[1]),
        log   |-> Append(st.log, Msg("infer", cur_pb_type))]
  ELSE st

\* A pb_type with several modes and none annotated: the first mode is
\* stored, the error logged
infer_multi_mode(cur_pb_type, st) ==
  [modes |-> add_pb_type_physical_mode(st.modes, cur_pb_type,
                                       G.pb[cur_pb_type].modes[1]),
   log   |-> Append(st.log, Msg("ambiguous", cur_pb_type))]

RECURSIVE rec_infer_vpr_physical_pb_mode_annotation(_, _)
RECURSIVE infer_children(_, _, _)

\* (a variant that visits the first child only)
infer_under_first_child(cur_pb_type, st) ==
  infer_children(SubSeq(G.mode[physical_mode(st.modes, cur_pb_type)].children, 1, 1), 1, st)

\* The traversal of the children under the physical mode of cur_pb_type
infer_under_physical_mode(cur_pb_type, st) ==
  infer_children(G.mode[physical_mode(st.modes, cur_pb_type)].children, 1, st)

\* The loop over the children of the physical mode
infer_children(children, ichild, st) ==
  IF ichild > Len(children) THEN st
  ELSE infer_children(children, ichild + 1,
         rec_infer_vpr_physical_pb_mode_annotation(children[ichild], st))

rec_infer_vpr_physical_pb_mode_annotation(cur_pb_type, st) ==
  IF is_primitive_pb_type(cur_pb_type) THEN st
  ELSE IF Len(G.pb[cur_pb_type].modes) = 1
  THEN infer_under_physical_mode(cur_pb_type, infer_single_mode(cur_pb_type, st))
  ELSE IF physical_mode(st.modes, cur_pb_type) = Null
  THEN infer_multi_mode(cur_pb_type, st)
  ELSE infer_under_physical_mode(cur_pb_type, st)

\* build_vpr_physical_pb_mode_implicit_annotation, from logical block type ilb
RECURSIVE implicit_from(_, _)
implicit_from(ilb, st) ==
  IF ilb > Len(G.lb) THEN st
  ELSE implicit_from(ilb + 1,
         IF G.lb[ilb] = Null THEN st
         ELSE rec_infer_vpr_physical_pb_mode_annotation(G.lb[ilb], st))

build_vpr_physical_pb_mode_implicit_annotation(st) == implicit_from(1, st)

\* One logical block type of the implicit pass
ImplicitRoot ==
  /\ pc = "implicit"
  /\ idx <= Len(G.lb)
  /\ G.lb[idx] # Null
  /\ \E st \in {rec_infer_vpr_physical_pb_mode_annotation(
                  G.lb[idx], [modes |-> physical_pb_modes, log |-> log])} :
       /\ physical_pb_modes' = st.modes
       /\ log' = st.log
  /\ idx' = idx + 1
  /\ UNCHANGED <<g, annotations, pc, physical_pb_types, physical_pb_ports,
                 physical_pb_port_ranges, num_err, pair_calls, query, found, snap>>

\* A logical block type without pb_type is passed by
ImplicitBypass ==
  /\ pc = "implicit"
  /\ idx <= Len(G.lb)
  /\ G.lb[idx] = Null
  /\ idx' = idx + 1
  /\ UNCHANGED <<g, annotations, pc, index, num_err, log, pair_calls, query,
                 found, snap>>

ImplicitEnd ==
  /\ pc = "implicit"
  /\ idx > Len(G.lb)
  /\ pc' = "check"
  /\ idx' = 1
  /\ UNCHANGED <<g, annotations, index, num_err, log, pair_calls, query, found,
                 snap>>

-----------------------------------------------------------------------------
(* rec_check_vpr_physical_pb_mode_annotation: st holds num_err and the log   *)

\* (a variant that expects of the children what is expected of the pb_type)
expect_child_as_parent(cur_pb_type, mode, expect_physical_mode, modes) ==
  expect_physical_mode

\* What is expected of the children of a mode of cur_pb_type
expect_child_physical_mode(cur_pb_type, mode, expect_physical_mode, modes) ==
  mode = physical_mode(modes, cur_pb_type) /\ expect_physical_mode

\* The error of a pb_type, if it has one
check_error(cur_pb_type, expect_physical_mode, modes) ==
  IF expect_physical_mode
  THEN IF physical_mode(modes, cur_pb_type) = Null THEN "missing" ELSE "none"
  ELSE IF physical_mode(modes, cur_pb_type) # Null THEN "unexpected" ELSE "none"

\* An error is counted and logged
count_error(err, cur_pb_type, st) ==
  [num_err |-> st.num_err + 1, log |-> Append(st.log, Msg(err, cur_pb_type))]

RECURSIVE rec_check_vpr_physical_pb_mode_annotation(_, _, _, _)
RECURSIVE check_children(_, _, _, _, _)
RECURSIVE check_modes(_, _, _, _, _)

\* (a variant that leaves the loop once an error has been counted)
check_children_stop(children, ichild, expect_child, modes, st) ==
  IF ichild > Len(children) \/ st.num_err > 0 THEN st
  ELSE check_children(children, ichild + 1, expect_child, modes,
         rec_check_vpr_physical_pb_mode_annotation(children[ichild],
                                                   expect_child, modes, st))

\* The loop over the children of one mode
check_children(children, ichild, expect_child, modes, st) ==
  IF ichild > Len(children) THEN st
  ELSE check_children(children, ichild + 1, expect_child, modes,
         rec_check_vpr_physical_pb_mode_annotation(children[ichild],
                                                   expect_child, modes, st))

\* The loop over the modes
check_modes(cur_pb_type, imode, expect_physical_mode, modes, st) ==
  IF imode > Len(G.pb[cur_pb_type].modes) THEN st
  ELSE check_modes(cur_pb_type, imode + 1, expect_physical_mode, modes,
         check_children(G.mode[G.pb[cur_pb_type].modes[imode]].children, 1,
           expect_child_physical_mode(cur_pb_type, G.pb[cur_pb_type].modes[imode],
                                      expect_physical_mode, modes),
           modes, st))

rec_check_vpr_physical_pb_mode_annotation(cur_pb_type, expect_physical_mode, modes, st) ==
  IF is_primitive_pb_type(cur_pb_type) THEN st
  ELSE IF check_error(cur_pb_type, expect_physical_mode, modes) # "none"
  THEN count_error(check_error(cur_pb_type, expect_physical_mode, modes),
                   cur_pb_type, st)
  ELSE check_modes(cur_pb_type, 1, expect_physical_mode, modes, st)

\* check_vpr_physical_pb_mode_annotation, from logical block type ilb
RECURSIVE check_from(_, _, _)
check_from(ilb, modes, st) ==
  IF ilb > Len(G.lb) THEN st
  ELSE check_from(ilb + 1, modes,
         IF G.lb[ilb] = Null THEN st
         ELSE rec_check_vpr_physical_pb_mode_annotation(G.lb[ilb], TRUE, modes, st))

\* The summary line
check_summary(st) ==
  [num_err |-> st.num_err,
   log     |-> Append(st.log, Msg(IF st.num_err = 0 THEN "check_passed"
                                  ELSE "check_failed", st.num_err))]

check_vpr_physical_pb_mode_annotation(modes, messages) ==
  check_summary(check_from(1, modes, [num_err |-> 0, log |-> messages]))

\* One logical block type of the check
CheckRoot ==
  /\ pc = "check"
  /\ idx <= Len(G.lb)
  /\ G.lb[idx] # Null
  /\ \E st \in {rec_check_vpr_physical_pb_mode_annotation(
                  G.lb[idx], TRUE, physical_pb_modes,
                  [num_err |-> num_err, log |-> log])} :
       /\ num_err' = st.num_err
       /\ log' = st.log
  /\ idx' = idx + 1
  /\ UNCHANGED <<g, annotations, pc, index, pair_calls, query, found, snap>>

CheckBypass ==
  /\ pc = "check"
  /\ idx <= Len(G.lb)
  /\ G.lb[idx] = Null
  /\ idx' = idx + 1
  /\ UNCHANGED <<g, annotations, pc, index, num_err, log, pair_calls, query,
                 found, snap>>

\* The summary is logged and link_arch goes on to the pb_type pairing
CheckEnd ==
  /\ pc = "check"
  /\ idx > Len(G.lb)
  /\ log' = check_summary([num_err |-> num_err, log |-> log]).log
  /\ pc' = "pair"
  /\ idx' = 1
  /\ UNCHANGED <<g, annotations, index, num_err, pair_calls, query, found, snap>>

-----------------------------------------------------------------------------
(* pair_operating_and_physical_pb_types: st holds the port, port range and  *)
(* pb_type maps                                                             *)

\* (a variant that resets the name of the expected port but not its width)
expected_physical_pb_port_no_width(a, operating_pb_port) ==
  IF physical_pb_type_port(a, G.port[operating_pb_port].name).name = ""
  THEN set_name(physical_pb_type_port(a, G.port[operating_pb_port].name),
                G.port[operating_pb_port].name)
  ELSE physical_pb_type_port(a, G.port[operating_pb_port].name)

\* The physical port expected for an operating port
expected_physical_pb_port(a, operating_pb_port) ==
  IF physical_pb_type_port(a, G.port[operating_pb_port].name).name = ""
  THEN set_width(set_name(physical_pb_type_port(a, G.port[operating_pb_port].name),
                          G.port[operating_pb_port].name),
                 G.port[operating_pb_port].num_pins)
  ELSE physical_pb_type_port(a, G.port[operating_pb_port].name)

\* (a variant that accepts any range)
port_range_unchecked(expected, physical_pb_port) == TRUE

\* Whether the expected port fits the port found in the physical pb_type
port_range_matches(expected, physical_pb_port) ==
  contained(expected, BasicPort(G.port[physical_pb_port].name,
                                G.port[physical_pb_port].num_pins))

\* The end of an iteration: the port pair and its range are added, unless
\* the port is missing or too narrow, which ends the loop with ret false
RECURSIVE pair_ports(_, _, _, _, _)
pair_port(operating_pb_type, physical_pb_type, a, iport, st, operating_pb_port, expected, physical_pb_port) ==
  IF physical_pb_port = Null THEN [ret |-> FALSE, st |-> st]
  ELSE IF ~port_range_matches(expected, physical_pb_port)
  THEN [ret |-> FALSE, st |-> st]
  ELSE pair_ports(operating_pb_type, physical_pb_type, a, iport + 1,
         [st EXCEPT
            !.ports = add_physical_pb_port(@, operating_pb_port, physical_pb_port),
            !.ranges = add_physical_pb_port_range(@, operating_pb_port, expected)])

\* The start of an iteration: the expected port is looked up
pair_expected(operating_pb_type, physical_pb_type, a, iport, st, operating_pb_port, expected) ==
  pair_port(operating_pb_type, physical_pb_type, a, iport, st, operating_pb_port,
            expected, find_pb_type_port(physical_pb_type, expected.name))

\* The loop over the ports of the operating pb_type, from port iport; ret
\* tells whether the loop ran to its end
pair_ports(operating_pb_type, physical_pb_type, a, iport, st) ==
  IF iport > Len(pb_type_ports(operating_pb_type))
  THEN [ret |-> TRUE, st |-> st]
  ELSE pair_expected(operating_pb_type, physical_pb_type, a, iport, st,
         pb_type_ports(operating_pb_type)[iport],
         expected_physical_pb_port(a, pb_type_ports(operating_pb_type)[iport]))

\* The pb_type pair is added once every port is paired
pair_pb_types(operating_pb_type, physical_pb_type, r) ==
  IF r.ret
  THEN [ret |-> TRUE,
        st  |-> [r.st EXCEPT !.types = add_physical_pb_type(@, operating_pb_type,
                                                            physical_pb_type)]]
  ELSE r

pair_operating_and_physical_pb_types(operating_pb_type, physical_pb_type, a, st) ==
  pair_pb_types(operating_pb_type, physical_pb_type,
                pair_ports(operating_pb_type, physical_pb_type, a, 1, st))

-----------------------------------------------------------------------------
(* build_vpr_physical_pb_type_annotation *)

target_op_pb_type_names(a) ==
  Append(a.operating_parent_pb_type_names, a.operating_pb_type_name)
target_op_pb_mode_names(a) == a.operating_parent_mode_names
target_phy_pb_type_names(a) ==
  Append(a.physical_parent_pb_type_names, a.physical_pb_type_name)
target_phy_pb_mode_names(a) == a.physical_parent_mode_names

\* The pb_type found under top, or Null; top must bear the first name of
\* the operating path
find_under(top, a, names, modes) ==
  IF top = Null THEN Null
  ELSE IF target_op_pb_type_names(a)[1] # G.pb[top].name THEN Null
  ELSE try_find_pb_type_with_given_path(top, names, modes)

PairCall(op, phy, a, st, r) ==
  [operating |-> op, physical |-> phy, a |-> a, ret |-> r.ret,
   before |-> st, after |-> r.st]

\* The loop over the logical block types, from ilb: it ends at the first
\* one under which both pb_types are found and can be paired.  calls
\* collects the calls made
RECURSIVE pair_under_lb_types(_, _, _, _)

pair_result(a, ilb, st, calls, op, phy, r) ==
  IF r.ret
  THEN [link_success |-> TRUE, st |-> r.st,
        calls |-> Append(calls, PairCall(op, phy, a, st, r))]
  ELSE pair_under_lb_types(a, ilb + 1, r.st,
                           Append(calls, PairCall(op, phy, a, st, r)))

pair_found(a, ilb, st, calls, op, phy) ==
  IF op = Null \/ phy = Null
  THEN pair_under_lb_types(a, ilb + 1, st, calls)
  ELSE pair_result(a, ilb, st, calls, op, phy,
                   pair_operating_and_physical_pb_types(op, phy, a, st))

pair_under_lb_types(a, ilb, st, calls) ==
  IF ilb > Len(G.lb) THEN [link_success |-> FALSE, st |-> st, calls |-> calls]
  ELSE pair_found(a, ilb, st, calls,
         find_under(G.lb[ilb], a, target_op_pb_type_names(a),
                    target_op_pb_mode_names(a)),
         find_under(G.lb[ilb], a, target_phy_pb_type_names(a),
                    target_phy_pb_mode_names(a)))

IndexSt == [ports |-> physical_pb_ports, ranges |-> physical_pb_port_ranges,
            types |-> physical_pb_types]

\* (a variant that goes on with the next record)
after_pair_failure_next(i) == [pc |-> "pair", idx |-> i + 1]

\* Where the pairing goes after a record that could not be paired
after_pair_failure(i) == [pc |-> "done", idx |-> i]

\* An annotation of a physical pb_type only is skipped
PairSkip ==
  /\ pc = "pair"
  /\ idx <= Len(annotations)
  /\ is_physical_pb_type(annotations[idx])
  /\ idx' = idx + 1
  /\ UNCHANGED <<g, annotations, pc, index, num_err, log, pair_calls, query,
                 found, snap>>

\* The operating pb_type is paired under some logical block type
PairLink ==
  /\ pc = "pair"
  /\ idx <= Len(annotations)
  /\ ~is_physical_pb_type(annotations[idx])
  /\ \E r \in {pair_under_lb_types(annotations[idx], 1, IndexSt, pair_calls)} :
       /\ r.link_success
       /\ physical_pb_ports' = r.st.ports
       /\ physical_pb_port_ranges' = r.st.ranges
       /\ physical_pb_types' = r.st.types
       /\ pair_calls' = r.calls
       /\ log' = Append(log, Msg("pair", idx))
  /\ idx' = idx + 1
  /\ UNCHANGED <<g, annotations, pc, physical_pb_modes, num_err, query, found,
                 snap>>

\* It is paired under none: the error is logged and the function returns
PairFail ==
  /\ pc = "pair"
  /\ idx <= Len(annotations)
  /\ ~is_physical_pb_type(annotations[idx])
  /\ \E r \in {pair_under_lb_types(annotations[idx], 1, IndexSt, pair_calls)} :
       /\ ~r.link_success
       /\ physical_pb_ports' = r.st.ports
       /\ physical_pb_port_ranges' = r.st.ranges
       /\ physical_pb_types' = r.st.types
       /\ pair_calls' = r.calls
       /\ log' = Append(log, Msg("pair_error", idx))
  /\ pc' = after_pair_failure(idx).pc
  /\ idx' = after_pair_failure(idx).idx
  /\ UNCHANGED <<g, annotations, physical_pb_modes, num_err, query, found, snap>>

PairEnd ==
  /\ pc = "pair"
  /\ idx > Len(annotations)
  /\ pc' = "done"
  /\ UNCHANGED <<g, annotations, idx, index, num_err, log, pair_calls, query,
                 found, snap>>

-----------------------------------------------------------------------------
(* link_arch *)

Next ==
  \/ ExplicitSkip
  \/ ExplicitAnnotate
  \/ ExplicitNullModeCrash
  \/ ExplicitNullModeContinue
  \/ ExplicitFail
  \/ ExplicitEnd
  \/ ImplicitRoot
  \/ ImplicitBypass
  \/ ImplicitEnd
  \/ CheckRoot
  \/ CheckBypass
  \/ CheckEnd
  \/ PairSkip
  \/ PairLink
  \/ PairFail
  \/ PairEnd

Spec == Init /\ [][Next]_vars

-----------------------------------------------------------------------------
(* try_find_pb_type_with_given_path called on its own, twice, with any top  *)
(* pb_type of a logical block type and any path of names of the graph       *)

TypeNames(gr) == {gr.pb[n].name : n \in 1..Len(gr.pb)} \cup {"zz"}
ModeNames(gr) == {gr.mode[m].name : m \in 1..Len(gr.mode)} \cup {"zz"}
TopPbTypes(gr) == {gr.lb[i] : i \in 1..Len(gr.lb)} \ {Null}

Queries(gr) ==
  UNION {[top : TopPbTypes(gr),
          names : [1..n -> TypeNames(gr)],
          modes : [1..(n - 1) -> ModeNames(gr)]] : n \in 1..MaxPathLen}

InitResolve ==
  /\ g \in 1..Len(Graphs)
  /\ query \in Queries(Graphs[g])
  /\ annotations = <<>>
  /\ pc = "resolve"
  /\ idx = 1
  /\ EmptyIndex
  /\ num_err = 0
  /\ log = <<>>
  /\ pair_calls = <<>>
  /\ found = <<>>
  /\ snap = EmptyMap

Resolve ==
  /\ pc = "resolve"
  /\ Len(found) < 2
  /\ found' = Append(found, try_find_pb_type_with_given_path(
                              query.top, query.names, query.modes))
  /\ UNCHANGED <<g, annotations, pc, idx, index, num_err, log, pair_calls,
                 query, snap>>

SpecResolve == InitResolve /\ [][Resolve]_vars

-----------------------------------------------------------------------------
(* The implicit pass and the check called on their own, on any physical     *)
(* mode map the annotation can hold: the functions of this file store, for  *)
(* a pb_type that has modes, one of its own modes or nullptr                *)

NonPrimitives(gr) == {n \in 1..Len(gr.pb) : Len(gr.pb[n].modes) > 0}

OwnModes(gr, n) == {gr.pb[n].modes[i] : i \in 1..Len(gr.pb[n].modes)}

\* Every map from some of the non-primitive pb_types to one of their modes or
\* nullptr
ModeMaps(gr) ==
  UNION {{f \in [S -> (1..Len(gr.mode)) \cup {Null}] :
            \A n \in S : f[n] \in OwnModes(gr, n) \cup {Null}} :
         S \in SUBSET NonPrimitives(gr)}

InitAny ==
  /\ g \in 1..Len(Graphs)
  /\ physical_pb_modes \in ModeMaps(Graphs[g])
  /\ physical_pb_types = EmptyMap
  /\ physical_pb_ports = EmptyMap
  /\ physical_pb_port_ranges = NoPortMap
  /\ annotations = <<>>
  /\ pc = "any"
  /\ idx = 1
  /\ num_err = 0
  /\ log = <<>>
  /\ pair_calls = <<>>
  /\ query = NoQuery
  /\ found = <<>>
  /\ snap = EmptyMap

\* check_vpr_physical_pb_mode_annotation
AnyCheck ==
  /\ pc = "any"
  /\ \E st \in {check_vpr_physical_pb_mode_annotation(physical_pb_modes, log)} :
       /\ num_err' = st.num_err
       /\ log' = st.log
  /\ pc' = "checked"
  /\ UNCHANGED <<g, annotations, idx, index, pair_calls, query, found, snap>>

\* build_vpr_physical_pb_mode_implicit_annotation, a first time
AnyInfer ==
  /\ pc = "any"
  /\ \E st \in {build_vpr_physical_pb_mode_implicit_annotation(
                  [modes |-> physical_pb_modes, log |-> log])} :
       /\ physical_pb_modes' = st.modes
       /\ snap' = st.modes
       /\ log' = st.log
  /\ pc' = "inferred"
  /\ UNCHANGED <<g, annotations, idx, physical_pb_types, physical_pb_ports,
                 physical_pb_port_ranges, num_err, pair_calls, query, found>>

\* and a second time
AnyInferAgain ==
  /\ pc = "inferred"
  /\ \E st \in {build_vpr_physical_pb_mode_implicit_annotation(
                  [modes |-> physical_pb_modes, log |-> log])} :
       /\ physical_pb_modes' = st.modes
       /\ log' = st.log
  /\ pc' = "inferred_twice"
  /\ UNCHANGED <<g, annotations, idx, physical_pb_types, physical_pb_ports,
                 physical_pb_port_ranges, num_err, pair_calls, query, found, snap>>

NextAny == AnyCheck \/ AnyInfer \/ AnyInferAgain

SpecAny == InitAny /\ [][NextAny]_vars

-----------------------------------------------------------------------------
(* link_arch from check_vpr_physical_pb_mode_annotation on, for any          *)
(* physical modes the two mode annotation passes may have left and at most   *)
(* one pb_type annotation                                                    *)

ShortAnnotationLists(pool) == {<<>>} \cup {<<a>> : a \in pool}

InitCheck ==
  /\ g \in 1..Len(Graphs)
  /\ annotations \in ShortAnnotationLists(Graphs[g].pool)
  /\ physical_pb_modes \in ModeMaps(Graphs[g])
  /\ physical_pb_types = EmptyMap
  /\ physical_pb_ports = EmptyMap
  /\ physical_pb_port_ranges = NoPortMap
  /\ pc = "check"
  /\ idx = 1
  /\ num_err = 0
  /\ log = <<>>
  /\ pair_calls = <<>>
  /\ query = NoQuery
  /\ found = <<>>
  /\ snap = EmptyMap

NextCheck ==
  \/ CheckRoot
  \/ CheckBypass
  \/ CheckEnd
  \/ PairSkip
  \/ PairLink
  \/ PairFail
  \/ PairEnd

SpecCheck == InitCheck /\ [][NextCheck]_vars

-----------------------------------------------------------------------------
(* Notions the properties are stated with *)

Logged(kind, at) == \E k \in 1..Len(log) : log[k] = Msg(kind, at)
LoggedKind(kind) == \E k \in 1..Len(log) : log[k].kind = kind

\* The children of the physical modes of the pb_types in S, a physical mode
\* being one of the modes of the pb_type itself
ChainStep(modes, S) ==
  {c \in PbTypes :
     \E n \in S : \E i \in 1..Len(G.pb[n].modes) :
        /\ G.pb[n].modes[i] = physical_mode(modes, n)
        /\ \E j \in 1..Len(G.mode[G.pb[n].modes[i]].children) :
             G.mode[G.pb[n].modes[i]].children[j] = c}

RECURSIVE ChainFrom(_, _)
ChainFrom(modes, S) ==
  IF ChainStep(modes, S) \subseteq S THEN S
  ELSE ChainFrom(modes, S \cup ChainStep(modes, S))

\* The pb_types reached from a top pb_type through physical modes only
Chain(modes) == ChainFrom(modes, TopPbTypes(G))

HasPhysicalMode(modes, n) == n \in DOMAIN modes /\ modes[n] # Null

\* The pb_types the explicit annotations of the list resolve to
ExplicitTargets ==
  {explicit_target_pb_type(annotations[k]) :
     k \in {i \in 1..Len(annotations) : annotations[i].physical_mode_name # ""}}

NoEntries(operating_pb_type, st) ==
  /\ operating_pb_type \notin DOMAIN st.types
  /\ \A i \in 1..Len(pb_type_ports(operating_pb_type)) :
       /\ pb_type_ports(operating_pb_type)[i] \notin DOMAIN st.ports
       /\ pb_type_ports(operating_pb_type)[i] \notin DOMAIN st.ranges

\* Whether an annotation can be paired under some logical block type (the
\* outcome of the pairing does not depend on the annotation built so far)
Pairable(a) ==
  pair_under_lb_types(a, 1, [ports |-> EmptyMap, ranges |-> NoPortMap,
                             types |-> EmptyMap], <<>>).link_success

-----------------------------------------------------------------------------
(* C1 *)

\* C1 (as claimed): a call of pair_operating_and_physical_pb_types that fails
\* on an operating pb_type without entries leaves the annotation without any
\* entry for that pb_type and for each of its ports, those iterated before
\* the failing port included.
C1_PairingAtomicity ==
  \A k \in 1..Len(pair_calls) :
     (~pair_calls[k].ret /\ NoEntries(pair_calls[k].operating, pair_calls[k].before))
       => NoEntries(pair_calls[k].operating, pair_calls[k].after)

-----------------------------------------------------------------------------
(* C2 *)

\* C2 (as claimed): a pb_type reported as having several modes and no
\* physical mode is left without physical mode, and once the check has run
\* a missing physical mode is reported for it.
C2_AmbiguousNeverGuessed ==
  \A k \in 1..Len(log) :
     log[k].kind = "ambiguous"
       => /\ ~HasPhysicalMode(physical_pb_modes, log[k].at)
          /\ pc \in {"pair", "done"} => Logged("missing", log[k].at)

-----------------------------------------------------------------------------
(* C3 *)

ModeAnnotationDone ==
  /\ pc \in {"check", "pair", "done"}
  /\ ~LoggedKind("unresolved")
  /\ ~LoggedKind("ambiguous")

\* C3 (as claimed): after the explicit and implicit passes without
\* unresolved path and without ambiguous mode, every non-primitive pb_type
\* on a chain of physical modes from a top pb_type has a physical mode and
\* no pb_type off such a chain has one.
C3_Coverage ==
  ModeAnnotationDone =>
    /\ \A n \in NonPrimitives(G) \cap Chain(physical_pb_modes) :
         HasPhysicalMode(physical_pb_modes, n)
    /\ \A n \in DOMAIN physical_pb_modes : n \in Chain(physical_pb_modes)

\* C3 (amended): after the explicit and implicit passes without unresolved
\* path and without ambiguous mode, every non-primitive pb_type on a chain
\* of physical modes from a top pb_type has a physical mode, and a pb_type
\* that has an entry is on such a chain or is the pb_type an explicit
\* annotation resolves to.
C3_CoverageAmended ==
  ModeAnnotationDone =>
    /\ \A n \in NonPrimitives(G) \cap Chain(physical_pb_modes) :
         HasPhysicalMode(physical_pb_modes, n)
    /\ \A n \in DOMAIN physical_pb_modes :
         n \in Chain(physical_pb_modes) \cup ExplicitTargets

\* An explicit annotation put a physical mode on a pb_type off the chain,
\* and the implicit pass one on a pb_type below a top pb_type
C3_Witness ==
  /\ ModeAnnotationDone
  /\ pc = "done"
  /\ \E n \in DOMAIN physical_pb_modes : n \notin Chain(physical_pb_modes)
  /\ \E n \in Chain(physical_pb_modes) \ TopPbTypes(G) : Logged("infer", n)

-----------------------------------------------------------------------------
(* C4 *)

\* C4 (as claimed): once a path of an explicit annotation is reported as
\* found under no logical block type, no later step writes an entry of the
\* annotation.
C4_ExplicitFailureAborts ==
  [][LoggedKind("unresolved") => UNCHANGED index]_vars

-----------------------------------------------------------------------------
(* C5 *)

PairingRecords == {k \in 1..Len(annotations) : ~is_physical_pb_type(annotations[k])}

-----------------------------------------------------------------------------
(* C6 *)

Kept(map, map2) == \A k \in DOMAIN map : k \in DOMAIN map2 /\ map2[k] = map[k]

-----------------------------------------------------------------------------
(* C7 *)

\* Whether a range lies within [0, width - 1] of a physical port
Fits(range, physical_pb_port) ==
  0 <= range.lsb /\ range.msb <= G.port[physical_pb_port].num_pins - 1

OperatingPorts(c) ==
  {pb_type_ports(c.operating)[i] : i \in 1..Len(pb_type_ports(c.operating))}

\* C7: every port range of the annotation lies within the width of the
\* physical port paired with the operating port; a call that meets an
\* operating port whose expected range does not lie within the physical
\* port of the expected name fails; a call that succeeds has recorded, for
\* every operating port, the physical port of the expected name and exactly
\* the expected range.
C7_RangeContainment ==
  /\ \A p \in DOMAIN physical_pb_port_ranges :
       /\ p \in DOMAIN physical_pb_ports
       /\ Fits(physical_pb_port_ranges[p], physical_pb_ports[p])
  /\ \A k \in 1..Len(pair_calls) :
       /\ (\E p \in OperatingPorts(pair_calls[k]) :
             \E q \in {find_pb_type_port(pair_calls[k].physical,
                         expected_physical_pb_port(pair_calls[k].a, p).name)} :
                q # Null /\ ~Fits(expected_physical_pb_port(pair_calls[k].a, p), q))
            => ~pair_calls[k].ret
       /\ pair_calls[k].ret =>
            \A p \in OperatingPorts(pair_calls[k]) :
               /\ p \in DOMAIN pair_calls[k].after.ranges
               /\ pair_calls[k].after.ranges[p] =
                    expected_physical_pb_port(pair_calls[k].a, p)
               /\ pair_calls[k].after.ports[p] =
                    find_pb_type_port(pair_calls[k].physical,
                      expected_physical_pb_port(pair_calls[k].a, p).name)

\* A call succeeded with a range that is a strict part of the physical
\* port, and a call failed on a range wider than the physical port
C7_Witness ==
  /\ \E k \in 1..Len(pair_calls) :
       /\ pair_calls[k].ret
       /\ \E p \in OperatingPorts(pair_calls[k]) :
            /\ pair_calls[k].after.ranges[p].lsb > 0
            /\ pair_calls[k].after.ranges[p].msb <
                 G.port[pair_calls[k].after.ports[p]].num_pins - 1
  /\ \E k \in 1..Len(pair_calls) :
       /\ ~pair_calls[k].ret
       /\ \E p \in OperatingPorts(pair_calls[k]) :
            \E q \in {find_pb_type_port(pair_calls[k].physical,
                        expected_physical_pb_port(pair_calls[k].a, p).name)} :
               q # Null /\ ~Fits(expected_physical_pb_port(pair_calls[k].a, p), q)

-----------------------------------------------------------------------------
(* C8 *)

\* The children named child_name of the modes named mode_name of pb_type n
NamedChildren(n, mode_name, child_name) ==
  {c \in PbTypes :
     /\ G.pb[c].name = child_name
     /\ \E i \in 1..Len(G.pb[n].modes) :
          /\ G.mode[G.pb[n].modes[i]].name = mode_name
          /\ \E j \in 1..Len(G.mode[G.pb[n].modes[i]].children) :
               G.mode[G.pb[n].modes[i]].children[j] = c}

\* The pb_types a path leads to, S being those its first i names lead to
RECURSIVE WalkFrom(_, _, _, _)
WalkFrom(S, names, modes, i) ==
  IF i = Len(names) THEN S
  ELSE WalkFrom(UNION {NamedChildren(n, modes[i], names[i + 1]) :
                         n \in {x \in S : G.pb[x].name = names[i]}},
                names, modes, i + 1)

Walk(q) == WalkFrom({n \in {q.top} : G.pb[n].name = q.names[1]}, q.names, q.modes, 1)

\* C8: a call of try_find_pb_type_with_given_path returns the pb_type the
\* path leads to from the top pb_type (each pb_type bearing the name given
\* for its level, through its mode of the name given, to the child of the
\* next name), nullptr when it leads nowhere; with a single name it returns
\* the top pb_type when that bears the name and nullptr otherwise; a second
\* call returns what the first returned.
C8_PathResolver ==
  /\ \A k \in 1..Len(found) :
       /\ IF found[k] = Null THEN Walk(query) = {} ELSE Walk(query) = {found[k]}
       /\ Len(query.names) = 1 =>
            IF G.pb[query.top].name = query.names[1]
            THEN found[k] = query.top ELSE found[k] = Null
  /\ Len(found) = 2 => found[1] = found[2]

\* Two calls found a pb_type two levels below the top pb_type
C8_Witness ==
  /\ Len(found) = 2
  /\ Len(query.names) = 3
  /\ found[1] # Null
  /\ found[1] # query.top

-----------------------------------------------------------------------------
(* C9 *)

\* C9 (as claimed): a second run of the implicit pass right after a first
\* leaves the physical modes as the first run left them.
C9_ImplicitIdempotent == pc = "inferred_twice" => physical_pb_modes = snap

-----------------------------------------------------------------------------
(* C10 *)

\* C10: the check counts no error exactly when every non-primitive pb_type
\* on a chain of physical modes from a top pb_type has a physical mode and
\* every non-primitive pb_type off such a chain has none.
C10_ValidatorSoundComplete ==
  pc = "checked" =>
    (num_err = 0 <=>
       /\ \A n \in NonPrimitives(G) \cap Chain(physical_pb_modes) :
            HasPhysicalMode(physical_pb_modes, n)
       /\ \A n \in NonPrimitives(G) \ Chain(physical_pb_modes) :
            ~HasPhysicalMode(physical_pb_modes, n))

\* The check passed on a graph with non-primitive pb_types on the chain
\* below a top pb_type and off the chain
C10_Witness ==
  /\ pc = "checked"
  /\ num_err = 0
  /\ (NonPrimitives(G) \cap Chain(physical_pb_modes)) \ TopPbTypes(G) # {}
  /\ NonPrimitives(G) \ Chain(physical_pb_modes) # {}

-----------------------------------------------------------------------------
(* C11 *)

\* Whether the annotation of a call gives no physical port for a port
Unmapped(c, p) == G.port[p].name \notin DOMAIN c.a.port_map

\* The full width of a port, from bit 0, under the port's own name
FullWidth(p) ==
  [name |-> G.port[p].name, lsb |-> 0, msb |-> G.port[p].num_pins - 1]

\* The ports of the physical pb_type of a call that bear the name of port p
SameName(c, p) ==
  {pb_type_ports(c.physical)[i] : i \in
     {j \in 1..Len(pb_type_ports(c.physical)) :
        G.port[pb_type_ports(c.physical)[j]].name = G.port[p].name}}

\* C11: a call that succeeds has recorded, for every operating port the
\* annotation gives no physical port for, a physical port of the operating
\* port's own name and the operating port's full width from bit 0 as its
\* range; and a call whose annotation gives no physical port at all succeeds
\* when the physical pb_type has, for every operating port, a port of the
\* same name that is at least as wide.
C11_InheritDefault ==
  \A k \in 1..Len(pair_calls) :
    /\ pair_calls[k].ret =>
         \A p \in OperatingPorts(pair_calls[k]) :
            Unmapped(pair_calls[k], p) =>
              /\ p \in DOMAIN pair_calls[k].after.ports
              /\ pair_calls[k].after.ports[p] \in SameName(pair_calls[k], p)
              /\ p \in DOMAIN pair_calls[k].after.ranges
              /\ pair_calls[k].after.ranges[p] = FullWidth(p)
    /\ (/\ DOMAIN pair_calls[k].a.port_map = {}
        /\ \A p \in OperatingPorts(pair_calls[k]) :
             /\ SameName(pair_calls[k], p) # {}
             /\ \A q \in SameName(pair_calls[k], p) :
                  G.port[q].num_pins >= G.port[p].num_pins)
         => pair_calls[k].ret

\* OP, with port in of width 4, was paired with PH, with port in of width
\* 8, by an annotation that gives no physical port, and the range recorded
\* for OP.in is in[0:3]
C11_Witness ==
  \E k \in 1..Len(pair_calls) :
    /\ pair_calls[k].ret
    /\ DOMAIN pair_calls[k].a.port_map = {}
    /\ G.pb[pair_calls[k].operating].name = "OP"
    /\ G.pb[pair_calls[k].physical].name = "PH"
    /\ \E p \in OperatingPorts(pair_calls[k]) :
         /\ G.port[p].name = "in"
         /\ G.port[p].num_pins = 4
         /\ G.port[pair_calls[k].after.ports[p]].name = "in"
         /\ G.port[pair_calls[k].after.ports[p]].num_pins = 8
         /\ pair_calls[k].after.ranges[p] = [name |-> "in", lsb |-> 0, msb |-> 3]

-----------------------------------------------------------------------------
(* C12 *)

\* A non-primitive pb_type on the chain of physical modes without a physical
\* mode, or off the chain with one
Inconsistent(modes, chain, n) ==
  /\ n \in NonPrimitives(G)
  /\ (n \in chain) # HasPhysicalMode(modes, n)

\* The children, under any mode, of the pb_types of S that are not
\* inconsistent
VisitStep(modes, chain, S) ==
  {c \in PbTypes :
     \E n \in S : \E i \in 1..Len(G.pb[n].modes) :
        /\ ~Inconsistent(modes, chain, n)
        /\ \E j \in 1..Len(G.mode[G.pb[n].modes[i]].children) :
             G.mode[G.pb[n].modes[i]].children[j] = c}

RECURSIVE VisitFrom(_, _, _)
VisitFrom(modes, chain, S) ==
  IF VisitStep(modes, chain, S) \subseteq S THEN S
  ELSE VisitFrom(modes, chain, S \cup VisitStep(modes, chain, S))

ErrorNodesOn(modes, chain, tops) ==
  {n \in VisitFrom(modes, chain, tops) : Inconsistent(modes, chain, n)}

\* The inconsistent pb_types that have no inconsistent pb_type above them,
\* under the top pb_types tops
ErrorNodes(modes, tops) == ErrorNodesOn(modes, Chain(modes), tops)

\* The top pb_types the check has gone through
CheckedTops ==
  IF pc = "check"
  THEN {G.lb[i] : i \in {k \in 1..Len(G.lb) : k < idx}} \ {Null}
  ELSE TopPbTypes(G)

\* The error messages of the check about pb_type n
ErrorMessages(n) ==
  {k \in 1..Len(log) : log[k].kind \in {"missing", "unexpected"} /\ log[k].at = n}

\* The error count and the error messages are those of the pb_types E
CountsErrors(E) ==
  /\ num_err = Cardinality(E)
  /\ \A n \in PbTypes :
       IF n \in E
       THEN /\ Cardinality(ErrorMessages(n)) = 1
            /\ \A k \in ErrorMessages(n) :
                 log[k].kind = IF HasPhysicalMode(physical_pb_modes, n)
                               THEN "unexpected" ELSE "missing"
       ELSE ErrorMessages(n) = {}

\* C12: the error count is the number of inconsistent pb_types without an
\* inconsistent pb_type above them, under the top pb_types gone through so
\* far, whatever their mode, parent or top pb_type; each has exactly one
\* error message, of its kind, and no other pb_type has one; the steps of
\* the check leave the annotation as it is; and the end of the check starts
\* the pairing, whatever the error count.
C12_ValidationCollects ==
  /\ []CountsErrors(ErrorNodes(physical_pb_modes, CheckedTops))
  /\ [][pc = "check" => UNCHANGED index]_vars
  /\ [][pc = "check" /\ idx > Len(G.lb) => pc' = "pair" /\ idx' = 1]_vars

\* The check counted errors under two top pb_types, and the pairing that
\* followed paired an operating pb_type
C12_Witness ==
  /\ pc = "done"
  /\ num_err >= 2
  /\ \E t1, t2 \in TopPbTypes(G) :
       /\ t1 # t2
       /\ ErrorNodes(physical_pb_modes, {t1}) # {}
       /\ ErrorNodes(physical_pb_modes, {t2}) # {}
  /\ \E k1, k2 \in 1..Len(log) :
       /\ k1 < k2
       /\ log[k1].kind = "check_failed"
       /\ log[k2].kind = "pair"

-----------------------------------------------------------------------------
(* C13 *)

\* C13 (as claimed): every physical mode of the annotation is one of the
\* modes of the pb_type it is recorded for, never nullptr or a mode of
\* another pb_type, and the explicit pass never reads through a null mode.
C13_PhysicalModeIsOwnMode ==
  /\ \A n \in DOMAIN physical_pb_modes :
       physical_pb_modes[n] \in OwnModes(G, n)
  /\ pc # "crashed"

====
